---- MODULE Spec2Model ----
(***************************************************************************)
(* Model of the /hubspot-cleaner webhook of src/app.py: the three text     *)
(* normalisers (normalize_phone, normalize_name, split_name) and the       *)
(* request handler hubspot_cleaner.                                        *)
(*                                                                         *)
(* A Python str is a sequence of one-character strings.  Two characters    *)
(* outside ASCII are written by their code point: "U+0149" (LATIN SMALL    *)
(* LETTER N PRECEDED BY APOSTROPHE) and "U+02BC" (MODIFIER LETTER          *)
(* APOSTROPHE).  A JSON value is a record with a kind: None (absent key or *)
(* null), a str, or a number (standing for every non-string value).        *)
(***************************************************************************)
EXTENDS Integers, Sequences, FiniteSets, TLC

VARIABLES
    pc,             \* position of the handler in hubspot_cleaner
    body,           \* the inbound request body
    email,          \* local variable email
    firstname,      \* local variable firstname (after normalize_name)
    lastname,       \* local variable lastname (after normalize_name)
    phone,          \* local variable phone (after normalize_phone)
    payload,        \* local variable payload; NoValue until built
    resp,           \* the upstream response; NoValue until received
    response,       \* what the handler returned; NoValue until it returns
    nResponses,     \* number of responses returned for the request
    upstreamCalls,  \* number of requests.post calls made for the request
    exc,            \* the step at which an exception was raised, or "none"
    propagated,     \* TRUE when an exception left the handler uncaught
    op,             \* harness of the pure functions: the function applied
    arg,            \* harness: the input value
    shape,          \* harness: the parts the phone input was built from
    res             \* harness: the result

vars == <<pc, body, email, firstname, lastname, phone, payload, resp, response,
          nResponses, upstreamCalls, exc, propagated, op, arg, shape, res>>

handlerVars == <<pc, body, email, firstname, lastname, phone, payload, resp,
                 response, nResponses, upstreamCalls, exc, propagated>>

harnessVars == <<op, arg, shape, res>>

----------------------------------------------------------------------------
(* Values *)

None == [kind |-> "none", s |-> <<>>, n |-> 0]
Str(s) == [kind |-> "str", s |-> s, n |-> 0]
Num(n) == [kind |-> "num", s |-> <<>>, n |-> n]
NoValue == [kind |-> "unset", s |-> <<>>, n |-> 0]

\* Python truthiness, as used by `not phone`, `not name`, `not email`.
Truthy(v) ==
    CASE v.kind = "none" -> FALSE
      [] v.kind = "str"  -> Len(v.s) > 0
      [] v.kind = "num"  -> v.n # 0

\* `x or ""` of the payload construction.
OrEmpty(v) == IF Truthy(v) THEN v ELSE Str(<<>>)

----------------------------------------------------------------------------
(* Characters *)

Lowercase == <<"a","b","c","d","e","f","g","h","i","j","k","l","m",
               "n","o","p","q","r","s","t","u","v","w","x","y","z">>
Uppercase == <<"A","B","C","D","E","F","G","H","I","J","K","L","M",
               "N","O","P","Q","R","S","T","U","V","W","X","Y","Z">>
Digits == {"0","1","2","3","4","5","6","7","8","9"}
Whitespace == {" ", "\t"}
SmallNApostrophe == "U+0149"
ModifierApostrophe == "U+02BC"

InSeq(seq, c) == \E i \in 1..Len(seq) : seq[i] = c
Pos(seq, c) == CHOOSE i \in 1..Len(seq) : seq[i] = c

\* \d and \D of the re module
IsDigit(c) == c \in Digits
\* \s of the re module, and what str.strip() removes
IsSpace(c) == c \in Whitespace
\* str.isalpha() on one character
IsAlphaChar(c) ==
    InSeq(Lowercase, c) \/ InSeq(Uppercase, c)
        \/ c \in {SmallNApostrophe, ModifierApostrophe}
\* str.isalpha(): every character alphabetic and at least one character
isalpha(s) == Len(s) > 0 /\ \A i \in 1..Len(s) : IsAlphaChar(s[i])

\* str.lower() on one character (also the folding of re.IGNORECASE)
LowerChar(c) == IF InSeq(Uppercase, c) THEN Lowercase[Pos(Uppercase, c)] ELSE c
\* the title-case mapping str.capitalize() applies to the first character;
\* U+0149 has the full mapping <U+02BC, N>
TitleChar(c) ==
    IF InSeq(Lowercase, c) THEN <<Uppercase[Pos(Lowercase, c)]>>
    ELSE IF c = SmallNApostrophe THEN <<ModifierApostrophe, "N">>
    ELSE <<c>>

\* str.capitalize()
capitalize(s) ==
    IF Len(s) = 0 THEN <<>>
    ELSE TitleChar(s[1]) \o [i \in 1..(Len(s) - 1) |-> LowerChar(s[i + 1])]

----------------------------------------------------------------------------
(* String helpers *)

\* s[i:] with a 1-based first index
From(s, i) == SubSeq(s, i, Len(s))

\* length of the longest prefix of s[i:] whose characters satisfy the class
RECURSIVE SpaceRun(_, _)
SpaceRun(s, i) == IF i <= Len(s) /\ IsSpace(s[i]) THEN 1 + SpaceRun(s, i + 1) ELSE 0
RECURSIVE DigitRun(_, _)
DigitRun(s, i) == IF i <= Len(s) /\ IsDigit(s[i]) THEN 1 + DigitRun(s, i + 1) ELSE 0

\* str.strip()
RECURSIVE lstrip(_)
lstrip(s) == IF Len(s) > 0 /\ IsSpace(s[1]) THEN lstrip(Tail(s)) ELSE s
RECURSIVE rstrip(_)
rstrip(s) ==
    IF Len(s) > 0 /\ IsSpace(s[Len(s)]) THEN rstrip(SubSeq(s, 1, Len(s) - 1)) ELSE s
strip(s) == rstrip(lstrip(s))

\* str.find(" "): 0-based index of the first space, -1 when there is none
RECURSIVE FindFrom(_, _)
FindFrom(s, i) ==
    IF i > Len(s) THEN -1
    ELSE IF s[i] = " " THEN i - 1
    ELSE FindFrom(s, i + 1)
\* variant: str.rfind(" "), the last space instead of the first
RECURSIVE RFindFrom(_, _)
RFindFrom(s, i) ==
    IF i < 1 THEN -1
    ELSE IF s[i] = " " THEN i - 1
    ELSE RFindFrom(s, i - 1)
find_last_space(s) == RFindFrom(s, Len(s))
find_space(s) == FindFrom(s, 1)

\* the literal `lit` matches s at position i, ignoring case
MatchesAt(s, i, lit) ==
    /\ i + Len(lit) - 1 <= Len(s)
    /\ \A k \in 1..Len(lit) : LowerChar(s[i + k - 1]) = lit[k]

----------------------------------------------------------------------------
(* normalize_phone *)

\* The alternation (ext\.?|x|extension) at position i: the length matched,
\* 0 when no alternative matches.  The alternatives are tried in the order
\* written and the rest of the pattern (\s*\d*) matches the empty string, so
\* the first alternative that matches is the one taken.
MarkerLenAt(s, i) ==
    IF MatchesAt(s, i, <<"e","x","t">>)
        THEN IF i + 3 <= Len(s) /\ s[i + 3] = "." THEN 4 ELSE 3
    ELSE IF MatchesAt(s, i, <<"x">>) THEN 1
    ELSE IF MatchesAt(s, i, <<"e","x","t","e","n","s","i","o","n">>) THEN 9
    ELSE 0

\* length of the match of (ext\.?|x|extension)\s*\d* at position i, 0 if none
ExtMatchLenAt(s, i) ==
    LET m == MarkerLenAt(s, i) IN
    IF m = 0 THEN 0
    ELSE LET w == SpaceRun(s, i + m) IN m + w + DigitRun(s, i + m + w)

\* re.sub(r"(ext\.?|x|extension)\s*\d*", "", phone, flags=re.IGNORECASE)
RECURSIVE StripExtFrom(_, _)
StripExtFrom(s, i) ==
    IF i > Len(s) THEN <<>>
    ELSE LET n == ExtMatchLenAt(s, i) IN
         IF n > 0 THEN StripExtFrom(s, i + n)
         ELSE <<s[i]>> \o StripExtFrom(s, i + 1)
StripExt(s) == StripExtFrom(s, 1)

\* re.sub(r"\D", "", phone)
OnlyDigits(s) == SelectSeq(s, IsDigit)

\* variant: the "00" prefix dropped from 11 digits on (>= instead of >)
CanonicalFromEleven(digits) ==
    IF Len(digits) = 10 THEN <<"1">> \o digits
    ELSE IF Len(digits) >= 11 /\ SubSeq(digits, 1, 2) = <<"0","0">>
        THEN SubSeq(digits, 3, Len(digits))
    ELSE digits

\* the digit-count rules of normalize_phone
Canonical(digits) ==
    IF Len(digits) = 10 THEN <<"1">> \o digits
    ELSE IF Len(digits) > 11 /\ SubSeq(digits, 1, 2) = <<"0","0">>
        THEN From(digits, 3)
    ELSE digits

\* normalize_phone raises TypeError when re.sub is given a truthy non-string
normalize_phone_raises(v) == Truthy(v) /\ v.kind # "str"

\* normalize_phone(phone): the str returned
normalize_phone(v) ==
    IF ~Truthy(v) THEN <<>>
    ELSE LET digits == OnlyDigits(StripExt(v.s)) IN
         IF Len(digits) = 0 THEN <<>>
         ELSE <<"+">> \o Canonical(digits)

----------------------------------------------------------------------------
(* normalize_name *)

\* re.sub(r"\s+", " ", s): every run of whitespace becomes one space
RECURSIVE CollapseFrom(_, _)
CollapseFrom(s, i) ==
    IF i > Len(s) THEN <<>>
    ELSE LET w == SpaceRun(s, i) IN
         IF w > 0 THEN <<" ">> \o CollapseFrom(s, i + w)
         ELSE <<s[i]>> \o CollapseFrom(s, i + 1)
CollapseSpaces(s) == CollapseFrom(s, 1)

\* s.split(sep) / re.split(r"([-'])", s): the pieces between separators; with
\* keep, each separator is itself a piece (the capturing group of the pattern)
RECURSIVE SplitFrom(_, _, _, _, _)
SplitFrom(s, i, cur, seps, keep) ==
    IF i > Len(s) THEN <<cur>>
    ELSE IF s[i] \in seps
        THEN <<cur>> \o (IF keep THEN <<(<<s[i]>>)>> ELSE <<>>)
                     \o SplitFrom(s, i + 1, <<>>, seps, keep)
    ELSE SplitFrom(s, i + 1, Append(cur, s[i]), seps, keep)
split_space(s) == SplitFrom(s, 1, <<>>, {" "}, FALSE)
split_hyphen_apostrophe(s) == SplitFrom(s, 1, <<>>, {"-", "'"}, TRUE)

\* sep.join(parts)
RECURSIVE Join(_, _)
Join(parts, sep) ==
    IF Len(parts) = 0 THEN <<>>
    ELSE IF Len(parts) = 1 THEN parts[1]
    ELSE parts[1] \o sep \o Join(Tail(parts), sep)

\* "".join(s.capitalize() if s.isalpha() else s for s in sub)
CapWord(word) ==
    LET sub == split_hyphen_apostrophe(word) IN
    Join([k \in 1..Len(sub) |->
            IF isalpha(sub[k]) THEN capitalize(sub[k]) ELSE sub[k]], <<>>)

\* normalize_name(name), name None or a str
normalize_name(v) ==
    IF ~Truthy(v) THEN <<>>
    ELSE LET name == CollapseSpaces(strip(v.s))
             words == split_space(name)
         IN Join([k \in 1..Len(words) |-> CapWord(words[k])], <<" ">>)

----------------------------------------------------------------------------
(* split_name *)

\* split_name raises AttributeError when .strip() is asked of a truthy
\* non-string
split_name_raises(v) == Truthy(v) /\ v.kind # "str"

\* split_name(full_name): the pair (first, last)
split_name(v) ==
    IF ~Truthy(v) \/ Len(strip(v.s)) = 0 THEN <<(<<>>), (<<>>)>>
    ELSE LET full_name == strip(v.s)
             first_space == find_space(full_name)
         IN IF first_space = -1 THEN <<full_name, (<<>>)>>
            ELSE <<SubSeq(full_name, 1, first_space),
                   strip(From(full_name, first_space + 2))>>

----------------------------------------------------------------------------
(* The handler hubspot_cleaner, one inbound request *)

\* variant: the try block wrapped around the upstream call only
CatchesUpstreamOnly(step) == step = "send"

\* the try block spans the whole body of the handler, so an exception raised
\* at any step is caught by `except Exception`
Catches(step) == step \in {"parse", "extract", "normalize", "send"}

\* variant: every 2xx status taken as success
IsSuccess2xx(status) == status \in 200..299

\* resp.status_code in (200, 201)
IsSuccess(status) == status \in {200, 201}

\* the string literals of the response bodies
MissingEmailText == <<"M","i","s","s","i","n","g"," ","e","m","a","i","l">>
OkText == <<"O","K">>
HubSpotErrorText == <<"H","u","b","S","p","o","t"," ","e","r","r","o","r">>
ServerCrashedText == <<"S","e","r","v","e","r"," ","c","r","a","s","h","e","d">>

\* jsonify({"error": "Missing email"}), 400
MissingEmailResponse == [status |-> 400, json |-> [error |-> Str(MissingEmailText)]]

\* jsonify({"message": "OK"}), 200
OkResponse == [status |-> 200, json |-> [message |-> Str(OkText)]]

\* variant: a fixed error body that drops the upstream body
FailureResponseGeneric(r) ==
    [status |-> 500,
     json |-> [error |-> Str(HubSpotErrorText), details |-> Str(<<"E","r","r","o","r">>)]]

\* jsonify({"error": "HubSpot error", "details": resp.text}), 500
FailureResponse(r) ==
    [status |-> 500,
     json |-> [error |-> Str(HubSpotErrorText), details |-> Str(r.text)]]

\* jsonify({"error": "Server crashed", "details": str(e)}), 500; str(e) is
\* kept as one token naming the step that raised
CrashResponse(step) ==
    [status |-> 500,
     json |-> [error |-> Str(ServerCrashedText), details |-> Str(<<step>>)]]

\* the payload dictionary sent upstream
BuildPayload(fn, ln, em, ph) ==
    [firstname |-> fn, lastname |-> ln, email |-> OrEmpty(em), phone |-> ph]

\* An exception raised at `step`: the except clause returns the 500 response;
\* an exception the clause did not cover would leave the handler.
Raise(step) ==
    /\ exc' = step
    /\ pc' = "Errored"
    /\ IF Catches(step)
         THEN /\ response' = CrashResponse(step)
              /\ nResponses' = nResponses + 1
              /\ propagated' = FALSE
         ELSE /\ propagated' = TRUE
              /\ UNCHANGED <<response, nResponses>>

\* an inbound POST /hubspot-cleaner arrives
Receive(b) ==
    /\ pc = "Idle"
    /\ pc' = "Received"
    /\ body' = b
    /\ UNCHANGED <<email, firstname, lastname, phone, payload, resp, response,
                   nResponses, upstreamCalls, exc, propagated, harnessVars>>

\* data = request.get_json(force=True)
Parse ==
    /\ pc = "Received"
    /\ IF body.kind = "malformed"
         THEN Raise("parse")
         ELSE /\ pc' = "Parsed"
              /\ UNCHANGED <<response, nResponses, exc, propagated>>
    /\ UNCHANGED <<body, email, firstname, lastname, phone, payload, resp,
                   upstreamCalls, harnessVars>>

\* the three data.get calls, then split_name, normalize_name (twice) and
\* normalize_phone
Extract ==
    /\ pc = "Parsed"
    /\ IF body.kind # "object"
         THEN /\ Raise("extract")
              /\ UNCHANGED <<email, firstname, lastname, phone>>
       ELSE IF split_name_raises(body.name) \/ normalize_phone_raises(body.phone)
         THEN /\ Raise("normalize")
              /\ UNCHANGED <<email, firstname, lastname, phone>>
       ELSE LET name_raw == body.name
                split == split_name(name_raw)
            IN /\ email' = body.email
               /\ firstname' = normalize_name(Str(split[1]))
               /\ lastname' = normalize_name(Str(split[2]))
               /\ phone' = normalize_phone(body.phone)
               /\ pc' = "Normalized"
               /\ UNCHANGED <<response, nResponses, exc, propagated>>
    /\ UNCHANGED <<body, payload, resp, upstreamCalls, harnessVars>>

\* if not email: return jsonify({"error": "Missing email"}), 400
Validate ==
    /\ pc = "Normalized"
    /\ IF ~Truthy(email)
         THEN /\ response' = MissingEmailResponse
              /\ nResponses' = nResponses + 1
              /\ pc' = "Errored"
         ELSE /\ pc' = "Validated"
              /\ UNCHANGED <<response, nResponses>>
    /\ UNCHANGED <<body, email, firstname, lastname, phone, payload, resp,
                   upstreamCalls, exc, propagated, harnessVars>>

\* payload = {"properties": {...}}
Build ==
    /\ pc = "Validated"
    /\ payload' = BuildPayload(firstname, lastname, email, phone)
    /\ pc' = "Built"
    /\ UNCHANGED <<body, email, firstname, lastname, phone, resp, response,
                   nResponses, upstreamCalls, exc, propagated, harnessVars>>

\* variant: the call repeated after a failure status
SendWithRetry(status, text) ==
    /\ pc = "Built"
    /\ upstreamCalls < 3
    /\ upstreamCalls' = upstreamCalls + 1
    /\ resp' = [status_code |-> status, text |-> text]
    /\ pc' = IF IsSuccess(status) THEN "Sent" ELSE "Built"
    /\ UNCHANGED <<body, email, firstname, lastname, phone, payload, response,
                   nResponses, exc, propagated, harnessVars>>

\* resp = requests.post(...), the upstream answering with a status and a body
Send(status, text) ==
    /\ pc = "Built"
    /\ upstreamCalls' = upstreamCalls + 1
    /\ resp' = [status_code |-> status, text |-> text]
    /\ pc' = "Sent"
    /\ UNCHANGED <<body, email, firstname, lastname, phone, payload, response,
                   nResponses, exc, propagated, harnessVars>>

\* resp = requests.post(...) raising a transport error
SendFails ==
    /\ pc = "Built"
    /\ upstreamCalls' = upstreamCalls + 1
    /\ Raise("send")
    /\ UNCHANGED <<body, email, firstname, lastname, phone, payload, resp,
                   harnessVars>>

\* the mapping of the upstream status to the handler's response
Respond ==
    /\ pc = "Sent"
    /\ response' = IF IsSuccess(resp.status_code) THEN OkResponse
                   ELSE FailureResponse(resp)
    /\ nResponses' = nResponses + 1
    /\ pc' = "Responded"
    /\ UNCHANGED <<body, email, firstname, lastname, phone, payload, resp,
                   upstreamCalls, exc, propagated, harnessVars>>

----------------------------------------------------------------------------
(* Requests and upstream answers explored *)

NameValues ==
    { None, Str(<<>>), Num(0), Num(5),
      Str(<<"b","o","b"," ","s","m","i","t","h">>),
      Str(<<"M","a","r","y"," ","A","n","n"," ","S","m","i","t","h">>),
      Str(<<" ","j","o","h","n"," "," ","o","'","b","r","i","e","n","-","s","m","i","t","h"," ">>) }
FirstnameValues == { None, Str(<<"j","a","n","e">>) }
LastnameValues == { None, Str(<<"d","o","e">>) }
EmailValues ==
    { None, Str(<<>>), Num(0), Num(5),
      Str(<<"j","a","n","e","@","x",".","c","o","m">>) }
PhoneValues ==
    { None, Str(<<>>), Num(5),
      Str(<<"(","5","5","5",")"," ","1","2","3","-","4","5","6","7">>) }

NoFields ==
    [name |-> None, firstname |-> None, lastname |-> None, email |-> None,
     phone |-> None]
\* a body that is not JSON, a JSON value that is not an object, a JSON object
Bodies ==
    { [kind |-> "malformed"] @@ NoFields, [kind |-> "nonobject"] @@ NoFields }
    \cup { [kind |-> "object", name |-> nm, firstname |-> fn, lastname |-> ln,
            email |-> em, phone |-> ph] :
             nm \in NameValues, fn \in FirstnameValues, ln \in LastnameValues,
             em \in EmailValues, ph \in PhoneValues }

StatusCodes == {200, 201, 204, 400, 503}
Texts == { <<>>, <<"d","o","w","n">> }

NoShape ==
    [absent |-> TRUE, lead |-> <<>>, n |-> 0, sep |-> <<>>, pre |-> <<>>,
     marker |-> <<>>, gap |-> 0, ext |-> <<>>]

HandlerIdle ==
    /\ pc = "Idle"
    /\ body = [kind |-> "none"] @@ NoFields
    /\ email = None
    /\ firstname = <<>>
    /\ lastname = <<>>
    /\ phone = <<>>
    /\ payload = NoValue
    /\ resp = NoValue
    /\ response = NoValue
    /\ nResponses = 0
    /\ upstreamCalls = 0
    /\ exc = "none"
    /\ propagated = FALSE

Init ==
    /\ HandlerIdle
    /\ op = "off"
    /\ arg = None
    /\ shape = NoShape
    /\ res = <<>>

Next ==
    \/ \E b \in Bodies : Receive(b)
    \/ Parse
    \/ Extract
    \/ Validate
    \/ Build
    \/ \E status \in StatusCodes, text \in Texts : Send(status, text)
    \/ SendFails
    \/ Respond

Spec == Init /\ [][Next]_vars

----------------------------------------------------------------------------
(* The pure functions applied to bounded inputs *)

MaxDigits == 12
MaxGap == 2
MaxNameLen == 5

DigitCycle == <<"5","1","2","3","4","6","7","8","9","0">>
Spaces(k) == [i \in 1..k |-> " "]

\* extension markers, in several letter cases; <<>> is a phone without one
Markers ==
    { <<"e","x","t">>, <<"E","X","T">>, <<"e","x","t",".">>, <<"E","x","t",".">>,
      <<"x">>, <<"X">>,
      <<"e","x","t","e","n","s","i","o","n">>,
      <<"E","x","t","e","n","s","i","o","n">>,
      <<"E","X","T","E","N","S","I","O","N">> }

\* <lead><n digits joined by sep>: the number part of a phone input
NumberOf(sh) ==
    sh.lead \o Join([i \in 1..sh.n |-> <<DigitCycle[((i - 1) % 10) + 1]>>], sh.sep)

\* <number><pre><marker><gap spaces><extension digits>
PhoneOf(sh) ==
    IF sh.absent THEN None
    ELSE Str(NumberOf(sh) \o sh.pre \o sh.marker \o Spaces(sh.gap) \o sh.ext)

NumberShapes ==
    [absent : {FALSE},
     lead : {<<>>, <<"0","0">>, <<"+">>, <<"(","0",")">>},
     n : 0..MaxDigits,
     sep : {<<>>, <<"-">>, <<" ">>},
     pre : {<<>>}, marker : {<<>>}, gap : {0}, ext : {<<>>}]

ExtensionShapes ==
    [absent : {FALSE},
     lead : {<<>>, <<"0","0">>},
     n : {0, 3, 7, 10},
     sep : {<<>>, <<"-">>},
     pre : {<<>>, <<" ">>},
     marker : Markers,
     gap : 0..MaxGap,
     ext : {<<>>, <<"2","2">>, <<"7">>}]

PhoneShapes == {NoShape} \cup NumberShapes \cup ExtensionShapes

NameAlphabet == {"a", "B", " ", "\t", "-", "'", "1", SmallNApostrophe}
NameInputs ==
    {None} \cup { Str(s) : s \in UNION { [1..k -> NameAlphabet] : k \in 0..MaxNameLen } }

InitPhone ==
    /\ HandlerIdle
    /\ op = "idle"
    /\ shape \in PhoneShapes
    /\ arg = PhoneOf(shape)
    /\ res = <<>>

InitName ==
    /\ HandlerIdle
    /\ op = "idle"
    /\ shape = NoShape
    /\ arg \in NameInputs
    /\ res = <<>>

ApplyNormalizePhone ==
    /\ op = "idle"
    /\ res' = normalize_phone(arg)
    /\ op' = "normalize_phone"
    /\ UNCHANGED <<arg, shape, handlerVars>>

ApplyNormalizeName ==
    /\ op = "idle"
    /\ res' = normalize_name(arg)
    /\ op' = "normalize_name"
    /\ UNCHANGED <<arg, shape, handlerVars>>

\* normalize_name applied to its own result
ReapplyNormalizeName ==
    /\ op = "normalize_name"
    /\ arg' = Str(res)
    /\ res' = normalize_name(Str(res))
    /\ op' = "normalize_name_twice"
    /\ UNCHANGED <<shape, handlerVars>>

ApplySplitName ==
    /\ op = "idle"
    /\ res' = split_name(arg)
    /\ op' = "split_name"
    /\ UNCHANGED <<arg, shape, handlerVars>>

NextPhone == ApplyNormalizePhone
NextName == ApplyNormalizeName \/ ReapplyNormalizeName \/ ApplySplitName

SpecPhone == InitPhone /\ [][NextPhone]_vars
SpecName == InitName /\ [][NextName]_vars

----------------------------------------------------------------------------
(* Properties *)

Terminal == {"Responded", "Errored"}
NonEmptyStr(v) == v.kind = "str" /\ Len(v.s) > 0
EmailMissing(b) == b.kind = "object" /\ (b.email = None \/ b.email = Str(<<>>))
HasLetter(v) == v.kind = "str" /\ \E i \in 1..Len(v.s) : IsAlphaChar(v.s[i])
DigitsOf(v) == IF v.kind = "str" THEN SelectSeq(v.s, LAMBDA c : c \in Digits) ELSE <<>>

\* C1: a request whose body is a JSON object with email absent or "" is
\* answered 400 {"error": "Missing email"} whatever name and phone hold, and
\* no upstream call is made while handling it.
C1_MissingEmailIs400 ==
    (pc # "Idle" /\ EmailMissing(body)) =>
        /\ upstreamCalls = 0
        /\ pc \in Terminal =>
              /\ response.status = 400
              /\ response.json = [error |-> Str(MissingEmailText)]

\* C2: once the upstream has answered, the handler responds 200 {"message":
\* "OK"} exactly when the upstream status is 200 or 201, and 500 for every
\* other status (204 included).
C2_SuccessIffOkOrCreated ==
    pc = "Responded" =>
        /\ (response.status = 200 /\ response.json = [message |-> Str(OkText)])
               <=> resp.status_code \in {200, 201}
        /\ resp.status_code \notin {200, 201} => response.status = 500

C2_Witness ==
    pc = "Responded" /\ resp.status_code = 204 /\ response.status = 500

C4_VariantAPayload ==
    ( /\ upstreamCalls = 1
      /\ body.name = None
      /\ body.firstname # None
      /\ body.lastname # None ) =>
        /\ payload.firstname = normalize_name(body.firstname)
        /\ payload.lastname = normalize_name(body.lastname)

\* C5: every request ends with exactly one response, of status 200, 400 or
\* 500; an exception raised at any step (parsing, field extraction,
\* normalisation, the upstream call) is caught and answered 500 "Server
\* crashed" and never leaves the handler; no response is returned before the
\* handler ends.
C5_OneResponseNoEscape ==
    /\ ~propagated
    /\ nResponses <= 1
    /\ pc \in Terminal =>
          nResponses = 1 /\ response.status \in {200, 400, 500}
    /\ pc \notin Terminal => nResponses = 0
    /\ exc # "none" =>
          /\ pc = "Errored"
          /\ response.status = 500
          /\ response.json.error = Str(ServerCrashedText)

C5_Witness ==
    /\ exc = "send"
    /\ pc = "Errored"
    /\ nResponses = 1
    /\ response.status = 500

\* C6: for a phone <number><marker><optional spaces><extension digits>, the
\* marker any of ext, ext., x, extension in any letter case, normalize_phone
\* returns what it returns for <number> alone.
C6_ExtensionDropped ==
    (op = "normalize_phone" /\ shape.marker # <<>>) =>
        res = normalize_phone(Str(NumberOf(shape) \o shape.pre))

\* C7: for a phone without letters whose digit characters are d,
\* normalize_phone returns "" when the phone is absent or d is empty, "+1" d
\* when d has 10 digits, "+" and d without its first two characters when d has
\* more than 11 digits and starts with "00", and "+" d otherwise.
C7_DigitRules ==
    (op = "normalize_phone" /\ ~HasLetter(arg)) =>
        LET d == DigitsOf(arg) IN
        res = IF Len(d) = 0 THEN <<>>
              ELSE IF Len(d) = 10 THEN <<"+", "1">> \o d
              ELSE IF Len(d) > 11 /\ d[1] = "0" /\ d[2] = "0"
                  THEN <<"+">> \o SubSeq(d, 3, Len(d))
              ELSE <<"+">> \o d

C7_Witness ==
    /\ op = "normalize_phone"
    /\ ~HasLetter(arg)
    /\ Len(DigitsOf(arg)) = 11
    /\ SubSeq(DigitsOf(arg), 1, 2) = <<"0", "0">>
    /\ res = <<"+">> \o DigitsOf(arg)

\* C8: normalize_name applied to its own result returns that result.
C8_Idempotent ==
    op = "normalize_name_twice" => res = arg.s

\* C9: split_name gives ("", "") for an absent, empty or whitespace-only input;
\* (trimmed, "") when the trimmed input holds no space; otherwise the non-empty
\* prefix before the first space of the trimmed input, which holds no space,
\* and everything after that space, trimmed.
C9_SplitAtFirstSpace ==
    op = "split_name" =>
        IF arg.kind = "none" \/ \A i \in 1..Len(arg.s) : arg.s[i] \in Whitespace
        THEN res = <<(<<>>), (<<>>)>>
        ELSE LET t == strip(arg.s) IN
             IF \A i \in 1..Len(t) : t[i] # " "
             THEN res = <<t, (<<>>)>>
             ELSE \E i \in 2..Len(t) :
                    /\ t[i] = " "
                    /\ \A j \in 1..(i - 1) : t[j] # " "
                    /\ res[1] = SubSeq(t, 1, i - 1)
                    /\ res[2] = strip(SubSeq(t, i + 1, Len(t)))

C9_Witness ==
    /\ op = "split_name"
    /\ arg.kind = "str"
    /\ Len(arg.s) = 5
    /\ res = << <<"a">>, <<"B", " ", "a">> >>

\* C10: the upstream POST is made at most once per request, only after the
\* email check has passed and the payload has been built and before any
\* response; when the email is a non-empty string and nothing raised before the
\* send step, the request ends with exactly one call made.
C10_SingleAttempt ==
    [][ /\ upstreamCalls' # upstreamCalls =>
              /\ upstreamCalls = 0
              /\ upstreamCalls' = 1
              /\ pc = "Built"
              /\ Truthy(email)
              /\ payload = BuildPayload(firstname, lastname, email, phone)
              /\ nResponses = 0
        /\ nResponses >= 1 => upstreamCalls' = upstreamCalls
        /\ ( /\ pc' \in Terminal
             /\ body'.kind = "object"
             /\ NonEmptyStr(body'.email)
             /\ exc' \notin {"parse", "extract", "normalize"} ) =>
              upstreamCalls' = 1
      ]_vars

C10_Witness ==
    /\ pc = "Responded"
    /\ resp.status_code = 503
    /\ upstreamCalls = 1

====
